---- MODULE Spec2Model ----
(***************************************************************************)
(* State-machine model of ConsoleWidget (src/src/notebook/console/         *)
(* widget.ts): the ordered list of cells of the console (banner, committed *)
(* prompts, live prompt), the execution flow, and the arbitration of       *)
(* asynchronous completion / inspection replies.                           *)
(*                                                                         *)
(* One action is one event handler run to completion (JavaScript is        *)
(* single threaded); a promise continuation is an action of its own that   *)
(* fires when the backend's reply arrives.                                 *)
(***************************************************************************)
EXTENDS Integers, Sequences, FiniteSets, TLC

\* ------------------------------------------------------------------ bounds
MaxCells    == 5   \* prompts ever created by newPrompt()
MaxExec     == 2   \* execute() calls
MaxInspect  == 3   \* inspect requests issued
MaxComplete == 2   \* completion requests issued
MaxKernel   == 1   \* kernelChanged events
MaxEdge     == 1   \* edge requests of the editor
MaxEditExec == 1   \* execute() calls where history is recalled as well
MaxCalls    == 2   \* applications of processInspectReply to one bundle
MaxAuxInspect  == 1   \* inspect requests where completion runs as well
MaxAuxComplete == 1   \* completion requests where inspection runs as well

\* ------------------------------------------------------------ option type
\* A nullable field is a sequence of length 0 (null) or 1 (a value).
None    == <<>>
Some(x) == <<x>>

\* ---------------------------------------------------------------- strings
\* A string is a sequence of one-character strings.
NL == "\n"

\* The texts the editor can hold: empty, a word, a word followed by a
\* blank, and two lines.
Texts == { <<>>, <<"a">>, <<"a", " ">>, <<" ", NL, "a">> }

\* Index of the first occurrence of c in s, 0 when there is none.
RECURSIVE indexOf(_, _, _)
indexOf(s, c, from) ==
    IF from > Len(s) THEN 0
    ELSE IF s[from] = c THEN from
    ELSE indexOf(s, c, from + 1)

\* String.prototype.split('\n'): the lines of s.
RECURSIVE split(_)
split(s) ==
    LET i == indexOf(s, NL, 1) IN
    IF i = 0 THEN <<s>>
    ELSE <<SubSeq(s, 1, i - 1)>> \o split(SubSeq(s, i + 1, Len(s)))

\* s.split('\n')[n], n counted from 0.
lineOf(s, n) == split(s)[n + 1]

\* line[ch - 1] && line[ch - 1].match(/\S/): there is a character before
\* the cursor and it is not whitespace.
Whitespace == {" ", "\t", NL}

isNonWhitespaceBefore(line, ch) ==
    /\ ch - 1 >= 0
    /\ ch - 1 < Len(line)
    /\ line[ch] \notin Whitespace

\* The ITextChange values the editor can emit: a text with the cursor at
\* the end of one of its lines, or at the start of its first line.
Changes ==
    UNION { { [newValue |-> t, line |-> n, ch |-> Len(lineOf(t, n))] :
                n \in 0..(Len(split(t)) - 1) } : t \in Texts }
    \cup { [newValue |-> t, line |-> 0, ch |-> 0] : t \in Texts }

\* The private field initialiser of _mimetype.
DefaultMimetype == <<"text/x-ipython">>

\* The kernels a session can be connected to, in order of connection.
Kernels == 0..MaxKernel

\* kernelInfo() of kernel k: info.banner and
\* mimetypeForLangauge(info.language_info).
bannerOf(k) == <<"banner", ToString(k)>>

mimetypeForLangauge(k) == <<"mime", ToString(k)>>

\* ----------------------------------------------------------- MIME bundles
\* A bundle maps 'text/plain' and 'application/vnd.jupyter.console-text'
\* to a string, or has no entry for the type.
BundleValues == { None, Some(<<>>), Some(<<" ">>), Some(<<"t">>), Some(<<"c">>),
                  Some(<<"t", "c">>) }

Bundles == [plain : BundleValues, console : BundleValues]

\* JavaScript truthiness of a bundle entry: present and not ''.
truthy(v) == v # None /\ v[1] # <<>>

\* Private.processInspectReply(bundle).
processInspectReply(bundle) ==
    [bundle EXCEPT !.console = IF truthy(bundle.console)
                               THEN bundle.console
                               ELSE bundle.plain]

\* The bundles a kernel replies with.
ReplyBundles == { [plain |-> Some(<<"t">>), console |-> None],
                  [plain |-> Some(<<"t">>), console |-> Some(<<"c">>)] }


VARIABLES
    layout,            \* PanelLayout children, in order: the cells
    nextId,            \* identity of the next cell widget to be created
    isDisposed,        \* Widget.isDisposed
    mimetype,          \* _mimetype
    kernel,            \* _session.kernel (identity of the backend)
    history,           \* _history (null after dispose)
    infoInFlight,      \* kernelInfo() requests not yet answered
    execs,             \* prompt.execute() calls sent and not yet completed
    nExec,             \* number of execute() calls so far
    execPromise,       \* state of the promise returned by each execute()
    output,            \* value returned by serialize() in the last step
    tooltip,           \* _tooltip (null after dispose)
    completion,        \* _completion (null after dispose)
    model,             \* the CompletionModel created with _completion
    pendingInspect,    \* _pendingInspect
    pendingComplete,   \* _pendingComplete
    inspectInFlight,   \* kernel.inspect() requests not yet answered
    completeInFlight,  \* kernel.complete() requests not yet answered
    shown,             \* the requests whose reply was shown, in order
    inspectBatch,      \* every reply so far was positive and arrived after
                       \* the last request had been issued
    edgeInFlight,      \* history.back() / forward() promises not yet settled
    nEdge,             \* number of edge requests so far
    mimeBundle,        \* the MimeBundle object handed to processInspectReply
    bundleIn,          \* its entries when it was first handed over
    returned,          \* the values processInspectReply returned, in order
    lastOp             \* the handler that ran in the last step, its inputs

lifeVars == <<layout, nextId, isDisposed, mimetype, kernel, history,
              infoInFlight, execs, nExec, execPromise, output>>

auxVars == <<tooltip, completion, model, pendingInspect, pendingComplete,
             inspectInFlight, completeInFlight, shown, inspectBatch>>

edgeVars == <<edgeInFlight, nEdge>>

bundleVars == <<mimeBundle, bundleIn, returned>>

vars == <<layout, nextId, isDisposed, mimetype, kernel, history,
          infoInFlight, execs, nExec, execPromise, output,
          tooltip, completion, model, pendingInspect, pendingComplete,
          inspectInFlight, completeInFlight, shown, inspectBatch,
          edgeInFlight, nEdge, mimeBundle, bundleIn, returned, lastOp>>

\* --------------------------------------------------------------- the cells
BannerId == 0

\* createBanner() followed by banner.readOnly = true.
createBanner ==
    [id |-> BannerId, readOnly |-> TRUE, trusted |-> FALSE,
     source |-> <<>>, mimetype |-> None]

\* createPrompt(rendermime): a fresh, editable, untrusted code cell.
createPrompt(id) ==
    [id |-> id, readOnly |-> FALSE, trusted |-> FALSE,
     source |-> <<>>, mimetype |-> None]

\* get prompt(): index of the last child, 0 when there is none.
promptIndex(l) == Len(l)

\* newPrompt() without the assignment to readOnly.
newPromptKeepingEditable(l, id, mime) ==
    Append(l, [createPrompt(id) EXCEPT !.mimetype = Some(mime)])

\* newPrompt(): the last child becomes read-only, a new prompt with the
\* current mimetype is appended.
newPrompt(l, id, mime) ==
    LET prev == IF promptIndex(l) > 0
                THEN [l EXCEPT ![promptIndex(l)].readOnly = TRUE]
                ELSE l
    IN  Append(prev, [createPrompt(id) EXCEPT !.mimetype = Some(mime)])

\* cell.dispose() of the child at 0-based position p: the widget leaves
\* its parent's layout.
disposeChildAt(l, p) ==
    [i \in 1..(Len(l) - 1) |-> IF i < p + 1 THEN l[i] ELSE l[i + 1]]

\* The loop of clear(): childCount() is re-read on every iteration.
RECURSIVE clearLoop(_, _)
clearLoop(l, i) ==
    IF i < Len(l) - 2
    THEN clearLoop(disposeChildAt(l, 1), i + 1)
    ELSE l

\* clear(): the loop, then newPrompt().
clear(l, id, mime) == newPrompt(clearLoop(l, 0), id, mime)

\* model.toJSON() of a cell: the record is the cell's identity and source.
toJSON(c) == [id |-> c.id, source |-> c.source]

\* serialize(): toJSON() of the children from position 1 on.
serialize(l) == [i \in 1..(Len(l) - 1) |-> toJSON(l[i + 1])]

\* createHistory(kernel): an empty history bound to the kernel.
createHistory(k) == [items |-> <<>>, cursor |-> 0, kernel |-> k]

\* history.push(text): appends unconditionally, cursor to the end.
historyPush(h, text) ==
    [h EXCEPT !.items = Append(h.items, text), !.cursor = Len(h.items) + 1]

\* history.back(): the cursor moves one entry back unless it is at the
\* oldest entry; the promise settles with the entry under the cursor, or
\* with nothing.
historyBack(h) ==
    IF h.cursor > 0 THEN [h EXCEPT !.cursor = h.cursor - 1] ELSE h

historyBackValue(h) ==
    IF h.cursor > 0 THEN Some(h.items[h.cursor]) ELSE None

\* history.forward(): the cursor moves one entry forward unless it is at
\* the present; the promise settles with the entry under the cursor, with
\* '' when the cursor has reached the present, or with nothing.
historyForward(h) ==
    IF h.cursor < Len(h.items) THEN [h EXCEPT !.cursor = h.cursor + 1] ELSE h

historyForwardValue(h) ==
    IF h.cursor < Len(h.items)
    THEN IF h.cursor + 1 < Len(h.items)
         THEN Some(h.items[h.cursor + 2])
         ELSE Some(<<>>)
    ELSE None

\* doc.setValue(text) on the document of the cell with the given identity;
\* a cell that has left the layout is not seen any more.
setValue(l, id, text) ==
    [i \in 1..Len(l) |-> IF l[i].id = id THEN [l[i] EXCEPT !.source = text]
                                          ELSE l[i]]

\* String.prototype.substring(a, b), a <= b, positions counted from 0.
substring(t, a, b) ==
    LET lo == IF a < Len(t) THEN a ELSE Len(t)
        hi == IF b < Len(t) THEN b ELSE Len(t)
    IN  SubSeq(t, lo + 1, hi)

\* model.createPatch(value): the text of the 'original' request with the
\* replacement range replaced by the candidate, and the position after it.
createPatch(m, value) ==
    LET t == m.original[1].currentValue
        r == m.cursor[1]
    IN  [text |-> substring(t, 0, r.start) \o value \o substring(t, r.end, Len(t)),
         position |-> r.start + Len(value)]

\* createCompletion(): a CompletionModel with nothing set.
createCompletion ==
    [options |-> None, cursor |-> None, original |-> None, current |-> None,
     isDisposed |-> FALSE]

\* createTooltip(): a hidden tooltip without content.
createTooltip == [visible |-> FALSE, content |-> None]

\* -------------------------------------------------------------------- Init
\* The state when the constructor returns: the banner, one live prompt, and
\* the kernelInfo() request of initialize() on its way.
InitConsole ==
    /\ layout = newPrompt(<<createBanner>>, 1, DefaultMimetype)
    /\ nextId = 2
    /\ isDisposed = FALSE
    /\ mimetype = DefaultMimetype
    /\ kernel = 0
    /\ history = Some(createHistory(0))
    /\ infoInFlight = {0}
    /\ execs = {}
    /\ nExec = 0
    /\ execPromise = <<>>
    /\ output = None
    /\ tooltip = Some(createTooltip)
    /\ completion = Some("CompletionWidget")
    /\ model = createCompletion
    /\ pendingInspect = 0
    /\ pendingComplete = 0
    /\ inspectInFlight = {}
    /\ completeInFlight = {}
    /\ shown = <<>>
    /\ inspectBatch = TRUE
    /\ edgeInFlight = {}
    /\ nEdge = 0
    /\ lastOp = [op |-> "constructor"]

\* No bundle has been handed to processInspectReply.
EmptyBundle == [plain |-> None, console |-> None]

Init ==
    /\ InitConsole
    /\ mimeBundle = EmptyBundle
    /\ bundleIn = EmptyBundle
    /\ returned = <<>>

\* Any bundle is about to be handed to processInspectReply.
InitNormalize ==
    /\ InitConsole
    /\ mimeBundle \in Bundles
    /\ bundleIn = mimeBundle
    /\ returned = <<>>

\* ------------------------------------------------------- lifecycle actions
\* execute() pushing the source to the history only when it is not empty.
ExecuteSkippingEmpty ==
    /\ ~isDisposed
    /\ nExec < MaxExec
    /\ LET p == promptIndex(layout) IN
        /\ layout' = [layout EXCEPT ![p].trusted = TRUE]
        /\ history' = IF layout[p].source = <<>> THEN history
                      ELSE Some(historyPush(history[1], layout[p].source))
        /\ execs' = execs \cup {[n |-> nExec + 1, cell |-> layout[p].id]}
        /\ lastOp' = [op |-> "execute", n |-> nExec + 1, cell |-> layout[p].id]
    /\ nExec' = nExec + 1
    /\ execPromise' = Append(execPromise, "pending")
    /\ output' = None
    /\ UNCHANGED <<nextId, isDisposed, mimetype, kernel, infoInFlight>>
    /\ UNCHANGED auxVars
    /\ UNCHANGED edgeVars
    /\ UNCHANGED bundleVars

\* execute(): trust the prompt, push its source, send it to the kernel.
\* On a disposed widget the prompt getter throws (the layout is null).
Execute ==
    /\ ~isDisposed
    /\ nExec < MaxExec
    /\ LET p == promptIndex(layout) IN
        /\ layout' = [layout EXCEPT ![p].trusted = TRUE]
        /\ history' = Some(historyPush(history[1], layout[p].source))
        /\ execs' = execs \cup {[n |-> nExec + 1, cell |-> layout[p].id]}
        /\ lastOp' = [op |-> "execute", n |-> nExec + 1, cell |-> layout[p].id]
    /\ nExec' = nExec + 1
    /\ execPromise' = Append(execPromise, "pending")
    /\ output' = None
    /\ UNCHANGED <<nextId, isDisposed, mimetype, kernel, infoInFlight>>
    /\ UNCHANGED auxVars
    /\ UNCHANGED edgeVars
    /\ UNCHANGED bundleVars

\* The continuation of execute() with no rejection handler: a rejected
\* execution makes no new prompt and rejects the returned promise.
ExecuteDoneNoRejectionHandler(e, outcome) ==
    /\ e \in execs
    /\ execs' = execs \ {e}
    /\ IF isDisposed \/ outcome = "reject"
       THEN /\ execPromise' = [execPromise EXCEPT ![e.n] = "rejected"]
            /\ UNCHANGED <<layout, nextId>>
       ELSE /\ nextId <= MaxCells
            /\ layout' = newPrompt(layout, nextId, mimetype)
            /\ nextId' = nextId + 1
            /\ execPromise' = [execPromise EXCEPT ![e.n] = "fulfilled"]
    /\ output' = None
    /\ lastOp' = [op |-> "executeDone", n |-> e.n, cell |-> e.cell,
                  outcome |-> outcome, newPrompt |-> ~isDisposed]
    /\ UNCHANGED <<isDisposed, mimetype, kernel, history, infoInFlight, nExec>>
    /\ UNCHANGED auxVars
    /\ UNCHANGED edgeVars
    /\ UNCHANGED bundleVars

\* The continuation of execute(): the fulfilment handler and the rejection
\* handler both call newPrompt().  With the widget disposed the layout is
\* null, the prompt getter throws and the returned promise rejects.
ExecuteDone(e, outcome) ==
    /\ e \in execs
    /\ execs' = execs \ {e}
    /\ IF isDisposed
       THEN /\ execPromise' = [execPromise EXCEPT ![e.n] = "rejected"]
            /\ UNCHANGED <<layout, nextId>>
       ELSE /\ nextId <= MaxCells
            /\ layout' = newPrompt(layout, nextId, mimetype)
            /\ nextId' = nextId + 1
            /\ execPromise' = [execPromise EXCEPT ![e.n] = "fulfilled"]
    /\ output' = None
    /\ lastOp' = [op |-> "executeDone", n |-> e.n, cell |-> e.cell,
                  outcome |-> outcome, newPrompt |-> ~isDisposed]
    /\ UNCHANGED <<isDisposed, mimetype, kernel, history, infoInFlight, nExec>>
    /\ UNCHANGED auxVars
    /\ UNCHANGED edgeVars
    /\ UNCHANGED bundleVars

\* clear().
Clear ==
    /\ ~isDisposed
    /\ nextId <= MaxCells
    /\ layout' = clear(layout, nextId, mimetype)
    /\ nextId' = nextId + 1
    /\ output' = None
    /\ lastOp' = [op |-> "clear", newPrompt |-> TRUE]
    /\ UNCHANGED <<isDisposed, mimetype, kernel, history, infoInFlight,
                   execs, nExec, execPromise>>
    /\ UNCHANGED auxVars
    /\ UNCHANGED edgeVars
    /\ UNCHANGED bundleVars

\* serialize().
Serialize ==
    /\ ~isDisposed
    /\ output' = Some(serialize(layout))
    /\ lastOp' = [op |-> "serialize"]
    /\ UNCHANGED <<layout, nextId, isDisposed, mimetype, kernel, history,
                   infoInFlight, execs, nExec, execPromise>>
    /\ UNCHANGED auxVars
    /\ UNCHANGED edgeVars
    /\ UNCHANGED bundleVars

\* The kernelChanged handler of the constructor: clear(), newPrompt(),
\* initialize(), and a new history for the new kernel.
KernelChanged ==
    /\ ~isDisposed
    /\ kernel < MaxKernel
    /\ nextId + 1 <= MaxCells
    /\ kernel' = kernel + 1
    /\ layout' = newPrompt(clear(layout, nextId, mimetype), nextId + 1, mimetype)
    /\ nextId' = nextId + 2
    /\ infoInFlight' = infoInFlight \cup {kernel'}
    /\ history' = Some(createHistory(kernel'))
    /\ output' = None
    /\ lastOp' = [op |-> "kernelChanged", newPrompt |-> TRUE]
    /\ UNCHANGED <<isDisposed, mimetype, execs, nExec, execPromise>>
    /\ UNCHANGED auxVars
    /\ UNCHANGED edgeVars
    /\ UNCHANGED bundleVars

\* The continuation of initialize(): the banner text, _mimetype and the
\* mimetype of the prompt come from the reply of kernel k.  On a disposed
\* widget the continuation throws, at the banner's model or at the prompt
\* getter, before or after _mimetype is assigned.
InfoReply(k) ==
    /\ k \in infoInFlight
    /\ infoInFlight' = infoInFlight \ {k}
    /\ IF isDisposed
       THEN /\ \E m \in {mimetype, mimetypeForLangauge(k)} : mimetype' = m
            /\ UNCHANGED layout
       ELSE /\ mimetype' = mimetypeForLangauge(k)
            /\ layout' = [layout EXCEPT
                 ![1].source = bannerOf(k),
                 ![promptIndex(layout)].mimetype = Some(mimetypeForLangauge(k))]
    /\ output' = None
    /\ lastOp' = [op |-> "infoReply", kernel |-> k]
    /\ UNCHANGED <<nextId, isDisposed, kernel, history, execs, nExec,
                   execPromise>>
    /\ UNCHANGED auxVars
    /\ UNCHANGED edgeVars
    /\ UNCHANGED bundleVars

\* dispose() that keeps the history.
DisposeKeepingHistory ==
    /\ IF isDisposed
       THEN UNCHANGED <<tooltip, history, completion, model, isDisposed, layout>>
       ELSE /\ tooltip' = None
            /\ history' = history
            /\ completion' = None
            /\ model' = [model EXCEPT !.isDisposed = TRUE]
            /\ isDisposed' = TRUE
            /\ layout' = <<>>
    /\ output' = None
    /\ lastOp' = [op |-> "dispose", again |-> isDisposed]
    /\ UNCHANGED <<nextId, mimetype, kernel, infoInFlight, execs, nExec,
                   execPromise, pendingInspect, pendingComplete,
                   inspectInFlight, completeInFlight, shown, inspectBatch>>
    /\ UNCHANGED edgeVars
    /\ UNCHANGED bundleVars

\* dispose(): the tooltip, the history and the completion widget (with its
\* model) are disposed and dropped, then Widget.dispose() disposes the
\* layout and its children.  A second call returns at once.
Dispose ==
    /\ IF isDisposed
       THEN UNCHANGED <<tooltip, history, completion, model, isDisposed, layout>>
       ELSE /\ tooltip' = None
            /\ history' = None
            /\ completion' = None
            /\ model' = [model EXCEPT !.isDisposed = TRUE]
            /\ isDisposed' = TRUE
            /\ layout' = <<>>
    /\ output' = None
    /\ lastOp' = [op |-> "dispose", again |-> isDisposed]
    /\ UNCHANGED <<nextId, mimetype, kernel, infoInFlight, execs, nExec,
                   execPromise, pendingInspect, pendingComplete,
                   inspectInFlight, completeInFlight, shown, inspectBatch>>
    /\ UNCHANGED edgeVars
    /\ UNCHANGED bundleVars

\* ------------------------------------------------- completion / inspection
\* The replies kernel.inspect() can settle with; "rejected" is a rejected
\* promise, for which no continuation is registered.
InspectReplies ==
    { [status |-> "ok", found |-> TRUE, data |-> b] : b \in ReplyBundles }
    \cup { [status |-> "ok", found |-> FALSE, data |-> b] : b \in {CHOOSE x \in ReplyBundles : TRUE} }
    \cup { [status |-> s, found |-> FALSE, data |-> b] :
             s \in {"error", "rejected"}, b \in {CHOOSE x \in ReplyBundles : TRUE} }

\* The replies kernel.complete() can settle with.
CompleteReplies ==
    { [status |-> "ok", matches |-> << <<"a", "b">> >>, cursor_start |-> 0, cursor_end |-> 1],
      [status |-> "ok", matches |-> <<>>, cursor_start |-> 1, cursor_end |-> 1],
      [status |-> "error", matches |-> <<>>, cursor_start |-> 0, cursor_end |-> 0],
      [status |-> "rejected", matches |-> <<>>, cursor_start |-> 0, cursor_end |-> 0] }

\* The guards of the continuation without the comparison of pendingInspect.
inspectAcceptedIgnoringSeq(disposed, seq, pending, reply) ==
    /\ reply.status # "rejected"
    /\ ~disposed
    /\ ~(reply.status # "ok" \/ ~reply.found)

\* The guards of the continuation of updateTooltip(): the reply is shown
\* when none of the three early returns is taken.
inspectAccepted(disposed, seq, pending, reply) ==
    /\ reply.status # "rejected"
    /\ ~disposed
    /\ seq = pending
    /\ ~(reply.status # "ok" \/ ~reply.found)

\* showTooltip(change, bundle): the rendered bundle becomes the content,
\* then show(); the change only positions the tooltip on the screen.
showTooltip(bundle) == [visible |-> TRUE, content |-> Some(bundle)]

\* The first continuation without the comparison of pendingComplete.
completeThen1IgnoringSeq(m, seq, pending, reply) ==
    IF m.isDisposed THEN m
    ELSE IF reply.status # "ok" THEN m
    ELSE [m EXCEPT !.options = Some(reply.matches),
                   !.cursor = Some([start |-> reply.cursor_start,
                                    end |-> reply.cursor_end])]

\* The first continuation of onCompletionRequest(): options and cursor of
\* the model are set when none of the three early returns is taken.
completeThen1(m, seq, pending, reply) ==
    IF m.isDisposed THEN m
    ELSE IF seq # pending THEN m
    ELSE IF reply.status # "ok" THEN m
    ELSE [m EXCEPT !.options = Some(reply.matches),
                   !.cursor = Some([start |-> reply.cursor_start,
                                    end |-> reply.cursor_end])]

\* The condition under which onTextChange() reaches updateTooltip(): the
\* character before the cursor is not whitespace, and the text is not ''.
callsUpdateTooltip(change) ==
    /\ isNonWhitespaceBefore(lineOf(change.newValue, change.line), change.ch)
    /\ change.newValue # <<>>

\* The second, chained continuation of onCompletionRequest().
completeThen2(m, change) == [m EXCEPT !.original = Some(change)]

\* The whitespace branch without the assignment to model.options.
resetCompletionKeepingOptions(m) ==
    [m EXCEPT !.original = None, !.cursor = None]

\* The whitespace branch of onTextChange(): the completion is reset.
resetCompletion(m) ==
    [m EXCEPT !.options = None, !.original = None, !.cursor = None]

\* onTextChange() assigning model.current without testing model.original.
OnTextChangeAlwaysCurrent(change) ==
    /\ ~isDisposed
    /\ change \in Changes
    /\ LET line  == lineOf(change.newValue, change.line)
           nonWs == isNonWhitespaceBefore(line, change.ch)
           issue == callsUpdateTooltip(change)
       IN
        /\ issue => pendingInspect < MaxInspect
        /\ layout' = [layout EXCEPT ![promptIndex(layout)].source = change.newValue]
        /\ model' = IF nonWs
                    THEN [model EXCEPT !.current = Some(change)]
                    ELSE resetCompletion(model)
        /\ tooltip' = IF nonWs THEN tooltip
                      ELSE Some([tooltip[1] EXCEPT !.visible = FALSE])
        \* updateTooltip(change)
        /\ pendingInspect' = IF issue THEN pendingInspect + 1 ELSE pendingInspect
        /\ inspectInFlight' =
             IF issue
             THEN inspectInFlight \cup
                    {[seq |-> pendingInspect + 1, kernel |-> kernel]}
             ELSE inspectInFlight
        /\ inspectBatch' = (inspectBatch /\
                             (issue => Cardinality(inspectInFlight) = pendingInspect))
        /\ lastOp' = [op |-> "textChange", change |-> change,
                      nonWs |-> nonWs, issue |-> issue,
                      hadOptions |-> model.options # None,
                      hadOriginal |-> model.original # None,
                      hadTooltip |-> tooltip[1].visible]
    /\ output' = None
    /\ UNCHANGED <<nextId, isDisposed, mimetype, kernel, history, infoInFlight,
                   execs, nExec, execPromise, completion, pendingComplete,
                   completeInFlight, shown>>
    /\ UNCHANGED edgeVars
    /\ UNCHANGED bundleVars

\* onTextChange(editor, change), emitted by the editor of the live prompt
\* when its text has become change.newValue.
OnTextChange(change) ==
    /\ ~isDisposed
    /\ change \in Changes
    /\ LET line  == lineOf(change.newValue, change.line)
           nonWs == isNonWhitespaceBefore(line, change.ch)
           issue == callsUpdateTooltip(change)
       IN
        /\ issue => pendingInspect < MaxInspect
        /\ layout' = [layout EXCEPT ![promptIndex(layout)].source = change.newValue]
        /\ model' = IF nonWs
                    THEN IF model.original # None
                         THEN [model EXCEPT !.current = Some(change)]
                         ELSE model
                    ELSE resetCompletion(model)
        /\ tooltip' = IF nonWs THEN tooltip
                      ELSE Some([tooltip[1] EXCEPT !.visible = FALSE])
        \* updateTooltip(change)
        /\ pendingInspect' = IF issue THEN pendingInspect + 1 ELSE pendingInspect
        /\ inspectInFlight' =
             IF issue
             THEN inspectInFlight \cup
                    {[seq |-> pendingInspect + 1, kernel |-> kernel]}
             ELSE inspectInFlight
        /\ inspectBatch' = (inspectBatch /\
                             (issue => Cardinality(inspectInFlight) = pendingInspect))
        /\ lastOp' = [op |-> "textChange", change |-> change,
                      nonWs |-> nonWs, issue |-> issue,
                      hadOptions |-> model.options # None,
                      hadOriginal |-> model.original # None,
                      hadTooltip |-> tooltip[1].visible]
    /\ output' = None
    /\ UNCHANGED <<nextId, isDisposed, mimetype, kernel, history, infoInFlight,
                   execs, nExec, execPromise, completion, pendingComplete,
                   completeInFlight, shown>>
    /\ UNCHANGED edgeVars
    /\ UNCHANGED bundleVars

\* The continuation of updateTooltip() for request r.
InspectReply(r, reply) ==
    /\ r \in inspectInFlight
    /\ reply \in InspectReplies
    /\ inspectInFlight' = inspectInFlight \ {r}
    /\ LET accepted == inspectAccepted(isDisposed, r.seq, pendingInspect, reply) IN
        /\ tooltip' = IF accepted
                      THEN Some(showTooltip(processInspectReply(reply.data)))
                      ELSE tooltip
        /\ shown' = IF accepted THEN Append(shown, r.seq) ELSE shown
        /\ inspectBatch' = (inspectBatch /\ reply.status = "ok" /\ reply.found)
        /\ lastOp' = [op |-> "inspectReply", seq |-> r.seq, kernel |-> r.kernel,
                      status |-> reply.status, shown |-> accepted]
    /\ output' = None
    /\ UNCHANGED <<layout, nextId, isDisposed, mimetype, kernel, history,
                   infoInFlight, execs, nExec, execPromise>>
    /\ UNCHANGED <<completion, model, pendingInspect, pendingComplete,
                   completeInFlight>>
    /\ UNCHANGED edgeVars
    /\ UNCHANGED bundleVars

\* onCompletionRequest() counting its requests in _pendingInspect as well.
OnCompletionRequestSharedCounter(req) ==
    /\ ~isDisposed
    /\ pendingComplete < MaxComplete
    /\ req.currentValue = layout[promptIndex(layout)].source
    /\ pendingComplete' = pendingComplete + 1
    /\ completeInFlight' = completeInFlight \cup
         {[seq |-> pendingComplete + 1, change |-> req, kernel |-> kernel]}
    /\ output' = None
    /\ lastOp' = [op |-> "completionRequest", seq |-> pendingComplete + 1]
    /\ UNCHANGED <<layout, nextId, isDisposed, mimetype, kernel, history,
                   infoInFlight, execs, nExec, execPromise>>
    /\ pendingInspect' = pendingInspect + 1
    /\ UNCHANGED <<tooltip, completion, model,
                   inspectInFlight, shown, inspectBatch>>
    /\ UNCHANGED edgeVars
    /\ UNCHANGED bundleVars

\* onCompletionRequest(editor, change), emitted by the editor of the live
\* prompt with its current text.
OnCompletionRequest(req) ==
    /\ ~isDisposed
    /\ pendingComplete < MaxComplete
    /\ req.currentValue = layout[promptIndex(layout)].source
    /\ pendingComplete' = pendingComplete + 1
    /\ completeInFlight' = completeInFlight \cup
         {[seq |-> pendingComplete + 1, change |-> req, kernel |-> kernel]}
    /\ output' = None
    /\ lastOp' = [op |-> "completionRequest", seq |-> pendingComplete + 1]
    /\ UNCHANGED <<layout, nextId, isDisposed, mimetype, kernel, history,
                   infoInFlight, execs, nExec, execPromise>>
    /\ UNCHANGED <<tooltip, completion, model, pendingInspect,
                   inspectInFlight, shown, inspectBatch>>
    /\ UNCHANGED edgeVars
    /\ UNCHANGED bundleVars

\* The two chained continuations of onCompletionRequest() for request r;
\* they run back to back when the reply arrives, and neither runs when the
\* promise is rejected.
CompleteReply(r, reply) ==
    /\ r \in completeInFlight
    /\ reply \in CompleteReplies
    /\ completeInFlight' = completeInFlight \ {r}
    /\ model' = IF reply.status = "rejected"
                THEN model
                ELSE completeThen2(
                       completeThen1(model, r.seq, pendingComplete, reply),
                       r.change)
    /\ output' = None
    /\ lastOp' = [op |-> "completeReply", seq |-> r.seq, kernel |-> r.kernel,
                  status |-> reply.status, latest |-> pendingComplete]
    /\ UNCHANGED <<layout, nextId, isDisposed, mimetype, kernel, history,
                   infoInFlight, execs, nExec, execPromise>>
    /\ UNCHANGED <<tooltip, completion, pendingInspect, pendingComplete,
                   inspectInFlight, shown, inspectBatch>>
    /\ UNCHANGED edgeVars
    /\ UNCHANGED bundleVars

\* onEdgeRequest(editor, location), emitted by the editor of the live
\* prompt: the document of that editor is captured, the history cursor
\* moves, and the recalled text arrives later.
OnEdgeRequest(location) ==
    /\ ~isDisposed
    /\ nEdge < MaxEdge
    /\ location \in {"top", "bottom"}
    /\ LET h == history[1]
           doc == layout[promptIndex(layout)].id
       IN
        /\ history' = Some(IF location = "top" THEN historyBack(h)
                                               ELSE historyForward(h))
        /\ edgeInFlight' = edgeInFlight \cup
             {[n |-> nEdge + 1, doc |-> doc, location |-> location,
               value |-> IF location = "top" THEN historyBackValue(h)
                                             ELSE historyForwardValue(h)]}
        /\ lastOp' = [op |-> "edgeRequest", location |-> location, doc |-> doc]
    /\ nEdge' = nEdge + 1
    /\ output' = None
    /\ UNCHANGED <<layout, nextId, isDisposed, mimetype, kernel, infoInFlight,
                   execs, nExec, execPromise>>
    /\ UNCHANGED auxVars
    /\ UNCHANGED bundleVars

\* The continuations of onEdgeRequest() for request r: at the top a falsy
\* value is dropped, at the bottom it clears the document.
EdgeReply(r) ==
    /\ r \in edgeInFlight
    /\ edgeInFlight' = edgeInFlight \ {r}
    /\ layout' = IF r.location = "top"
                 THEN IF ~truthy(r.value) THEN layout
                      ELSE setValue(layout, r.doc, r.value[1])
                 ELSE setValue(layout, r.doc,
                               IF truthy(r.value) THEN r.value[1] ELSE <<>>)
    /\ output' = None
    /\ lastOp' = [op |-> "edgeReply", location |-> r.location, doc |-> r.doc]
    /\ UNCHANGED <<nextId, isDisposed, mimetype, kernel, history, infoInFlight,
                   execs, nExec, execPromise, nEdge>>
    /\ UNCHANGED auxVars
    /\ UNCHANGED bundleVars

\* onCompletionSelect(widget, value), emitted by the completion widget for
\* one of the candidates it displays: the patch is written to the live
\* prompt.
OnCompletionSelect(value) ==
    /\ ~isDisposed
    /\ model.options # None /\ model.cursor # None /\ model.original # None
    /\ \E i \in 1..Len(model.options[1]) : model.options[1][i] = value
    /\ layout' = setValue(layout, layout[promptIndex(layout)].id,
                          createPatch(model, value).text)
    /\ output' = None
    /\ lastOp' = [op |-> "completionSelect", value |-> value]
    /\ UNCHANGED <<nextId, isDisposed, mimetype, kernel, history, infoInFlight,
                   execs, nExec, execPromise>>
    /\ UNCHANGED auxVars
    /\ UNCHANGED edgeVars
    /\ UNCHANGED bundleVars

\* A call of Private.processInspectReply(bundle): the console-text entry of
\* the object is assigned and the object is returned.
ProcessInspectReply ==
    /\ Len(returned) < MaxCalls
    /\ mimeBundle' = processInspectReply(mimeBundle)
    /\ returned' = Append(returned, mimeBundle')
    /\ bundleIn' = bundleIn
    /\ lastOp' = [op |-> "processInspectReply"]
    /\ UNCHANGED lifeVars
    /\ UNCHANGED auxVars
    /\ UNCHANGED edgeVars

\* The candidates a kernel can offer.
Candidates == UNION { {c.matches[i] : i \in 1..Len(c.matches)} : c \in CompleteReplies }

\* The ICompletionRequest values the editor can emit.
CompletionRequests ==
    { [currentValue |-> c.newValue, line |-> c.line, ch |-> c.ch] : c \in Changes }

\* ---------------------------------------------------------- specifications
Next ==
    \/ Execute
    \/ \E e \in execs, outcome \in {"resolve", "reject"} : ExecuteDone(e, outcome)
    \/ Clear
    \/ Serialize
    \/ KernelChanged
    \/ \E k \in infoInFlight : InfoReply(k)
    \/ Dispose
    \/ \E change \in Changes : OnTextChange(change)
    \/ \E r \in inspectInFlight, reply \in InspectReplies : InspectReply(r, reply)
    \/ \E req \in CompletionRequests : OnCompletionRequest(req)
    \/ \E r \in completeInFlight, reply \in CompleteReplies : CompleteReply(r, reply)
    \/ \E value \in Candidates : OnCompletionSelect(value)
    \/ \E location \in {"top", "bottom"} : OnEdgeRequest(location)
    \/ \E r \in edgeInFlight : EdgeReply(r)

Spec == Init /\ [][Next]_vars

\* The prompt lifecycle alone: the editor emits no signal.
NextLife ==
    \/ Execute
    \/ \E e \in execs, outcome \in {"resolve", "reject"} : ExecuteDone(e, outcome)
    \/ Clear
    \/ Serialize
    \/ KernelChanged
    \/ \E k \in infoInFlight : InfoReply(k)
    \/ Dispose

SpecLife == Init /\ [][NextLife]_vars

\* Typing and inspection alone: nothing is executed, no completion is
\* requested.
NextInspect ==
    \/ \E change \in Changes : OnTextChange(change)
    \/ \E r \in inspectInFlight, reply \in InspectReplies : InspectReply(r, reply)
    \/ Dispose

SpecInspect == Init /\ [][NextInspect]_vars

\* Typing and completion alone: nothing is executed, no inspect reply
\* arrives.
NextComplete ==
    \/ \E change \in Changes : OnTextChange(change)
    \/ \E req \in CompletionRequests : OnCompletionRequest(req)
    \/ \E r \in completeInFlight, reply \in CompleteReplies : CompleteReply(r, reply)
    \/ \E value \in Candidates : OnCompletionSelect(value)
    \/ Dispose

SpecComplete == Init /\ [][NextComplete]_vars

\* processInspectReply alone, applied again and again to one bundle.
NextNormalize == ProcessInspectReply

SpecNormalize == InitNormalize /\ [][NextNormalize]_vars

\* Typing, executing and recalling history: no completion is requested and
\* no inspect reply arrives.
NextEdit ==
    \/ \E change \in Changes :
         /\ callsUpdateTooltip(change) => pendingInspect < MaxAuxInspect
         /\ OnTextChange(change)
    \/ nExec < MaxEditExec /\ Execute
    \/ \E e \in execs, outcome \in {"resolve", "reject"} : ExecuteDone(e, outcome)
    \/ \E location \in {"top", "bottom"} : OnEdgeRequest(location)
    \/ \E r \in edgeInFlight : EdgeReply(r)
    \/ Dispose

SpecEdit == Init /\ [][NextEdit]_vars

\* The editor's signals and their replies together, with fewer requests:
\* nothing is executed.
NextAux ==
    \/ \E change \in Changes :
         /\ callsUpdateTooltip(change) => pendingInspect < MaxAuxInspect
         /\ OnTextChange(change)
    \/ \E r \in inspectInFlight, reply \in InspectReplies : InspectReply(r, reply)
    \/ \E req \in CompletionRequests :
         /\ pendingComplete < MaxAuxComplete
         /\ OnCompletionRequest(req)
    \/ \E r \in completeInFlight, reply \in CompleteReplies : CompleteReply(r, reply)
    \/ Dispose

SpecAux == Init /\ [][NextAux]_vars

\* The editor's signals, their replies and a change of kernel.
NextSwap ==
    \/ NextAux
    \/ KernelChanged

SpecSwap == Init /\ [][NextSwap]_vars

\* ------------------------------------------------------------ properties
\* The identities of the cells of a layout.
cellIds(l) == {l[i].id : i \in 1..Len(l)}

\* C1: when every inspect request was issued before the first reply arrived
\* and every reply is ok and found, the tooltip is shown for the reply to
\* the request issued last, once that reply has arrived, and for no other;
\* no request is ever shown twice.
InspectArbitration ==
    /\ \A i, j \in 1..Len(shown) : i # j => shown[i] # shown[j]
    /\ (inspectBatch /\ ~isDisposed) =>
         shown = IF /\ pendingInspect >= 1
                    /\ \A r \in inspectInFlight : r.seq # pendingInspect
                 THEN <<pendingInspect>>
                 ELSE <<>>

\* Three requests, all answered, the reply to the first one arriving last.
InspectArbitrationWitness ==
    /\ inspectBatch /\ ~isDisposed
    /\ pendingInspect = 3
    /\ inspectInFlight = {}
    /\ lastOp.op = "inspectReply" /\ lastOp.seq = 1
    /\ shown = <<3>>

\* C2: a completion reply that changes model.options or model.cursor has
\* status ok and answers the request with the highest sequence number
\* issued so far.
CompletionArbitration ==
    [][ ( /\ lastOp'.op = "completeReply"
          /\ (model'.options # model.options \/ model'.cursor # model.cursor) )
        => (lastOp'.status = "ok" /\ lastOp'.seq = pendingComplete) ]_vars

\* The reply to the second request set the candidates while the first
\* request was still unanswered.
CompletionArbitrationWitness ==
    /\ lastOp.op = "completeReply" /\ lastOp.status = "ok"
    /\ lastOp.seq = 2 /\ pendingComplete = 2
    /\ \E r \in completeInFlight : r.seq = 1
    /\ model.options = Some(<< <<"a", "b">> >>)

\* C3: a completion reply that is not ok, or that is stale, leaves the
\* candidates, the replacement range and the 'original' snapshot as they
\* were.
CompletionRejectedUntouched ==
    [][ ( /\ lastOp'.op = "completeReply"
          /\ (lastOp'.status # "ok" \/ lastOp'.seq # pendingComplete) )
        => ( /\ model'.options = model.options
             /\ model'.cursor = model.cursor
             /\ model'.original = model.original ) ]_vars

\* C4: the candidates, the replacement range and the 'original' snapshot
\* are all unset or all set.
CompletionStateAllOrNothing ==
    \/ (model.options = None /\ model.cursor = None /\ model.original = None)
    \/ (model.options # None /\ model.cursor # None /\ model.original # None)

\* C5: while the console is alive the banner is the first cell and is
\* read-only, every cell before the last is read-only, and the last cell,
\* and only the last, is editable.
LifecycleInvariant ==
    ~isDisposed =>
        /\ Len(layout) >= 2
        /\ layout[1].id = BannerId
        /\ \A i \in 2..Len(layout) : layout[i].id # BannerId
        /\ \A i \in 1..(Len(layout) - 1) : layout[i].readOnly
        /\ ~layout[Len(layout)].readOnly

\* A kernel change and the completion of an execution have both happened.
LifecycleInvariantWitness ==
    /\ ~isDisposed
    /\ kernel = 1
    /\ lastOp.op = "executeDone"
    /\ Len(layout) >= 4

\* C6: when an execution completes on a live console, resolved or rejected,
\* the executed cell is read-only afterwards (if it is still in the
\* layout), a fresh editable prompt has been appended, and the promise
\* returned by execute() is fulfilled.
ExecutionAdvances ==
    [][ (lastOp'.op = "executeDone" /\ ~isDisposed) =>
        ( /\ Len(layout') = Len(layout) + 1
          /\ layout'[Len(layout')].id \notin cellIds(layout)
          /\ ~layout'[Len(layout')].readOnly
          /\ \A i \in 1..Len(layout') :
                layout'[i].id = lastOp'.cell => layout'[i].readOnly
          /\ execPromise'[lastOp'.n] = "fulfilled" ) ]_vars

\* A rejected execution has completed: its cell is committed and is
\* followed by the new prompt.
ExecutionAdvancesWitness ==
    /\ ~isDisposed
    /\ lastOp.op = "executeDone" /\ lastOp.outcome = "reject"
    /\ execPromise[lastOp.n] = "fulfilled"
    /\ layout[Len(layout) - 1].id = lastOp.cell
    /\ layout[Len(layout) - 1].readOnly
    /\ ~layout[Len(layout)].readOnly

\* C7: at most one execution is sent and not yet completed.
AtMostOneExecuting == Cardinality(execs) <= 1

\* C8: whenever newPrompt() runs, no execution is outstanding.
NewPromptOnlyWhenIdle ==
    [][ ( /\ lastOp'.op \in {"executeDone", "clear", "kernelChanged"}
          /\ lastOp'.newPrompt )
        => execs' = {} ]_vars

\* C9: after clear() none of the cells that were committed before the call
\* is in the layout, and the banner is still the first cell.
ClearRemovesCommitted ==
    [][ lastOp'.op = "clear" =>
        ( /\ \A i \in 2..(Len(layout) - 1) : layout[i].id \notin cellIds(layout')
          /\ layout'[1].id = BannerId ) ]_vars

\* The records of the committed cells of a layout: all but the banner and
\* the live prompt.
committedRecords(l) == [i \in 1..(Len(l) - 2) |-> toJSON(l[i + 1])]

\* C10: serialize() returns the records of the committed cells, in order,
\* and nothing else, and changes no state.
SerializeCommittedOnly ==
    [][ lastOp'.op = "serialize" =>
        ( /\ output' = Some(committedRecords(layout))
          /\ UNCHANGED <<layout, nextId, isDisposed, mimetype, kernel, history,
                         infoInFlight, execs, nExec, execPromise>>
          /\ UNCHANGED auxVars ) ]_vars

\* The character before the cursor of a change is whitespace, or there is
\* none.
whitespaceOrAbsentBefore(change) ==
    LET line == lineOf(change.newValue, change.line) IN
    \/ change.ch = 0
    \/ change.ch > Len(line)
    \/ line[change.ch] \in {" ", "\t", NL}

\* C11: a text change with whitespace or nothing before the cursor leaves
\* the candidates, the range and 'original' unset and the tooltip hidden,
\* and issues no request: both counters and both sets of requests in
\* flight are unchanged.
WhitespaceBoundary ==
    [][ (lastOp'.op = "textChange" /\ whitespaceOrAbsentBefore(lastOp'.change))
        => ( /\ model'.options = None
             /\ model'.cursor = None
             /\ model'.original = None
             /\ ~tooltip'[1].visible
             /\ UNCHANGED <<pendingInspect, pendingComplete,
                            inspectInFlight, completeInFlight>> ) ]_vars

\* A blank was typed while candidates were set and the tooltip was shown.
WhitespaceBoundaryWitness ==
    /\ lastOp.op = "textChange"
    /\ lastOp.change = [newValue |-> <<"a", " ">>, line |-> 0, ch |-> 2]
    /\ lastOp.hadOptions /\ lastOp.hadOriginal /\ lastOp.hadTooltip
    /\ model.options = None /\ model.original = None /\ model.cursor = None
    /\ ~tooltip[1].visible

\* C12: the reply to a completion or inspect request that was issued to a
\* kernel other than the current one is not applied: it shows no tooltip
\* and sets neither the candidates nor the replacement range.
KernelChangeInvalidates ==
    [][ ( /\ lastOp'.op \in {"inspectReply", "completeReply"}
          /\ lastOp'.kernel # kernel )
        => ( /\ shown' = shown
             /\ tooltip' = tooltip
             /\ model'.options = model.options
             /\ model'.cursor = model.cursor ) ]_vars

\* C13: a continuation that resumes on a disposed console (the reply to
\* an inspect, completion, kernel-info or history request, or the
\* completion of an execution) changes nothing of the console: not its
\* cells, mimetype or history, not the completion model, not the tooltip.
DisposedContinuationsNoOp ==
    [][ ( /\ isDisposed
          /\ lastOp'.op \in {"inspectReply", "completeReply", "executeDone",
                             "infoReply", "edgeReply"} )
        => UNCHANGED <<layout, mimetype, history, tooltip, completion, model,
                       pendingInspect, pendingComplete, shown>> ]_vars

\* C14: after a change of kernel, once no kernelInfo() reply is outstanding,
\* the banner text, _mimetype and the mimetype of the live prompt are those
\* of the current kernel.
InitializedFromCurrentKernel ==
    (~isDisposed /\ kernel >= 1 /\ infoInFlight = {}) =>
        /\ layout[1].source = bannerOf(kernel)
        /\ mimetype = mimetypeForLangauge(kernel)
        /\ layout[Len(layout)].mimetype = Some(mimetypeForLangauge(kernel))

DisposeIdempotent ==
    [][ lastOp'.op = "dispose" =>
          IF lastOp'.again
          THEN /\ isDisposed
               /\ UNCHANGED <<layout, nextId, isDisposed, mimetype, kernel,
                              history, infoInFlight, execs, nExec, execPromise>>
               /\ UNCHANGED auxVars
               /\ UNCHANGED edgeVars
    /\ UNCHANGED bundleVars
          ELSE /\ ~isDisposed /\ isDisposed'
               /\ tooltip' = None /\ history' = None /\ completion' = None ]_vars

\* A second dispose() has run on a console whose first dispose() released
\* a history holding an executed text.
DisposeIdempotentWitness ==
    /\ lastOp.op = "dispose" /\ lastOp.again
    /\ isDisposed /\ tooltip = None /\ history = None /\ completion = None
    /\ nExec > 0

\* C17: processInspectReply applied twice returns what it returned the
\* first time, and a console-text entry the bundle came with is returned as
\* it came.
NormalizeIdempotentKeepsConsole ==
    /\ Len(returned) >= 2 => returned[2] = returned[1]
    /\ Len(returned) >= 1 /\ bundleIn.console # None =>
          returned[1].console = bundleIn.console

\* C18: a cell between the banner and the live prompt is committed; as long
\* as it stays in the console it stays read-only and keeps its text,
\* whatever handler or continuation runs.
CommittedImmutable ==
    [][ \A i \in 2..(Len(layout) - 1) : \A j \in 1..Len(layout') :
          layout'[j].id = layout[i].id =>
            /\ layout[i].readOnly /\ layout'[j].readOnly
            /\ layout'[j].source = layout[i].source ]_vars

\* C19: a text change with a non-whitespace character before the cursor,
\* made while the completion model has no 'original', changes no field of
\* the completion model and issues no completion request; it issues one
\* inspect request when the new text is not empty, and none otherwise.
NonWhitespaceWithoutOriginal ==
    [][ ( /\ lastOp'.op = "textChange"
          /\ ~whitespaceOrAbsentBefore(lastOp'.change)
          /\ model.original = None ) =>
        ( /\ model' = model
          /\ completion' = completion
          /\ pendingComplete' = pendingComplete
          /\ completeInFlight' = completeInFlight
          /\ IF lastOp'.change.newValue # <<>>
             THEN /\ pendingInspect' = pendingInspect + 1
                  /\ inspectInFlight' = inspectInFlight \cup
                       {[seq |-> pendingInspect + 1, kernel |-> kernel]}
             ELSE /\ pendingInspect' = pendingInspect
                  /\ inspectInFlight' = inspectInFlight ) ]_vars

\* Such a change has been made while a completion request was on its way:
\* the request is still there and an inspect request has joined it.
NonWhitespaceWithoutOriginalWitness ==
    /\ lastOp.op = "textChange"
    /\ lastOp.nonWs /\ ~lastOp.hadOriginal
    /\ model.original = None /\ model.current = None
    /\ completeInFlight # {} /\ pendingComplete = 1
    /\ inspectInFlight # {} /\ pendingInspect = 1

\* C20: _pendingInspect grows by exactly 1 in a step that issues an inspect
\* request and is unchanged in every other step; _pendingComplete grows by
\* exactly 1 in a step that issues a completion request and is unchanged in
\* every other step; no step issues both, so a request of one kind leaves
\* the pending requests of the other kind as acceptable as they were.
CountersIndependent ==
    [][ LET inspectIssued  == inspectInFlight' \ inspectInFlight # {}
            completeIssued == completeInFlight' \ completeInFlight # {}
        IN
         /\ pendingInspect' = IF inspectIssued THEN pendingInspect + 1
                                               ELSE pendingInspect
         /\ pendingComplete' = IF completeIssued THEN pendingComplete + 1
                                                 ELSE pendingComplete
         /\ ~(inspectIssued /\ completeIssued)
         /\ inspectIssued => lastOp'.op = "textChange"
         /\ completeIssued => lastOp'.op = "completionRequest" ]_vars

\* A completion request has been issued while an inspect request was on its
\* way: each counter stands at 1 and each pending request is the current
\* one of its kind.
CountersIndependentWitness ==
    /\ lastOp.op = "completionRequest"
    /\ pendingInspect = 1 /\ pendingComplete = 1
    /\ \E r \in inspectInFlight : r.seq = pendingInspect
    /\ \E r \in completeInFlight : r.seq = pendingComplete

====
